---- MODULE Spec2Model ----
(***************************************************************************)
(* Serial command protocol layer of the ServoShutter firmwares.            *)
(*                                                                         *)
(* Four firmware variants are modelled over one set of variables; `fw`     *)
(* selects the variant:                                                    *)
(*   "structured"  src/ServoShutter/main.cpp                 (opcode+args) *)
(*   "delimiter"   src/ServoShutter/main_binary_protocol.cpp (FF .. FE,    *)
(*                 plus the legacy ASCII processor in the same loop)       *)
(*   "arduino"     src/ServoShutter/main_arduino.cpp         (ASCII)       *)
(*   "line"        src/ServoShutter/main_sonnet.cpp          (CR/LF lines) *)
(*                                                                         *)
(* The host sends messages (sequences of bytes) into `wire`; bytes arrive  *)
(* in the firmware's receive buffer `rx` in order, in arbitrary chunks,    *)
(* interleaved with the firmware's steps.  Everything the firmware writes  *)
(* to the link (serial writes and console printf alike) is appended to     *)
(* `tx`.  `profile` names the family of messages the host draws from.      *)
(***************************************************************************)
EXTENDS Integers, Sequences, FiniteSets, TLC

VARIABLES
    fw,               \* firmware variant
    profile,          \* the host's message family
    pc,               \* position of the firmware's control loop
    wire,             \* bytes sent by the host, not yet in the receive buffer
    rx,               \* receive buffer of the serial link (unread bytes)
    sends,            \* number of messages the host has sent
    late,             \* delimiter: arrivals between the two processors so far
    tx,               \* every byte the firmware has written, in order
    servo_positions,  \* servo_positions[4], indexed 0..3
    spins,            \* structured: iterations of the wait loop (mod SpinWrap)
    cmdBuffer,        \* delimiter: cmdBuffer[0..bufferPos-1]
    bufferPos,        \* delimiter: static bufferPos of processSerialInput
    inCommand,        \* delimiter: static inCommand of processSerialInput
    legacyPos,        \* delimiter: static bufferPos of processLegacyInput
    cmd_buffer,       \* line: cmd_buffer[0..cmd_pos-1]
    cmd_pos,          \* line: cmd_pos
    binStream,        \* history: bytes read so far by the delimiter decoder
    binPolls,        \* history: how many of its polls read bytes
    asciiStream,      \* history: bytes read so far by an ASCII processor
    dispatched,       \* history: payloads handed to processCommand (delimiter)
    cmdLog            \* history: one record per command the firmware handled

\* the host side and the link
hostv == <<fw, profile, wire, sends, late>>
\* the statics of the delimiter firmware's two processors
dstat == <<cmdBuffer, bufferPos, inCommand, legacyPos>>
\* the line firmware's command buffer
lstat == <<cmd_buffer, cmd_pos>>
\* the histories of the delimiter decoder
dhist == <<binStream, binPolls, dispatched>>

vars == <<fw, profile, pc, wire, rx, sends, late, tx, servo_positions, spins,
          cmdBuffer, bufferPos, inCommand, legacyPos, cmd_buffer, cmd_pos,
          binStream, binPolls, asciiStream, dispatched, cmdLog>>

---------------------------------------------------------------------------
(* Bounds of the model *)

\* messages the host sends in one run
MaxSends == 2
\* arrivals that fall between processSerialInput and processLegacyInput
MaxLateArrivals == 2
\* the wait loop's iteration counter wraps at this value
SpinWrap == 2
\* a message of at most this many bytes may arrive one byte at a time
MaxSplit == 4

---------------------------------------------------------------------------
(* Program constants *)

PULSEWIDTH_LOW == 1100
PULSEWIDTH_MID == 1400
PULSEWIDTH_HIGH == 1700

\* structured variant (main.cpp)
CMD_SET_POSITION == 1
CMD_QUERY_POSITION == 2
CMD_HANDSHAKE == 3
POS_LOW == 1
POS_MID == 2
POS_HIGH == 3
RESP_SUCCESS == 0
RESP_ERROR == 255
RESP_INIT_COMPLETE == 170
RESP_HANDSHAKE == 187

\* delimiter variant (main_binary_protocol.cpp)
CMD_START == 255
CMD_END == 254
CMD_MOVE == 1
CMD_QUERY == 2
RESP_STATUS_OK == 0
RESP_STATUS_ERROR == 1
CmdBufferSize == 16
LegacyBufferSize == 32

\* line variant (main_sonnet.cpp)
CmdLineSize == 128
ReadBufferSize == 32

\* arduino variant (main_arduino.cpp)
ARDUINO_INITIAL == 2000

Channels == 0..3

---------------------------------------------------------------------------
(* Bytes and text *)

\* ASCII codes used by the firmwares
ChQuery == 63
ChCR == 13
ChLF == 10
ChColon == 58
ChSpace == 32
ChDigit0 == 48
ChDigit1 == 49
ChDigit4 == 52

Min(a, b) == IF a < b THEN a ELSE b

\* n copies of byte b
Fill(b, n) == [i \in 1..n |-> b]

\* (v >> s) & 0xFF for s a multiple of 8
ByteAt(v, shift) == (v \div (2 ^ shift)) % 256

\* printf("%u") / Serial.print(int): the decimal digits of n as characters
RECURSIVE Decimal(_)
Decimal(n) ==
    IF n < 10 THEN <<ChDigit0 + n>>
    ELSE Decimal(n \div 10) \o <<ChDigit0 + (n % 10)>>

\* the characters of the twelve legacy commands: "qazwsxedcrfv"
LegacyChars == <<113, 97, 122, 119, 115, 120, 101, 100, 99, 114, 102, 118>>

\* first index of c in s, 0 when absent
IndexOf(s, c) ==
    IF \E i \in 1..Len(s) : s[i] = c
    THEN CHOOSE i \in 1..Len(s) : s[i] = c /\ \A j \in 1..(i - 1) : s[j] # c
    ELSE 0

TextInitializing ==
    <<73, 110, 105, 116, 105, 97, 108, 105, 122, 105, 110, 103, 32, 115, 101,
      114, 118, 111, 115, 46, 46, 46>>
TextInvalidQuery ==
    <<73, 110, 118, 97, 108, 105, 100, 32, 113, 117, 101, 114, 121>>
TextInvalidServoCommand ==
    <<73, 110, 118, 97, 108, 105, 100, 32, 115, 101, 114, 118, 111, 32, 99,
      111, 109, 109, 97, 110, 100, 58, 32>>
TextUnknownCommand ==
    <<85, 110, 107, 110, 111, 119, 110, 32, 99, 111, 109, 109, 97, 110, 100,
      58, 32>>

---------------------------------------------------------------------------
(* History records *)

\* one handled command: what it was, what it wrote, the store before/after
LogEntry(kind, args, resp, before, after) ==
    [kind |-> kind, args |-> args, resp |-> resp, pre |-> before, post |-> after]

\* the bytes appended to the link between two values of tx
Written(old, new) == SubSeq(new, Len(old) + 1, Len(new))

---------------------------------------------------------------------------
(* Structured binary variant: src/ServoShutter/main.cpp *)

\* setServoPosition with a wrong level table (LOW and HIGH exchanged)
SetServoPosition_SwappedLevels(sp, out, servo_index, position) ==
    IF position \notin {POS_LOW, POS_MID, POS_HIGH}
    THEN [sp |-> sp, out |-> Append(out, RESP_ERROR)]
    ELSE LET pulsewidth == CASE position = POS_LOW -> PULSEWIDTH_HIGH
                             [] position = POS_MID -> PULSEWIDTH_MID
                             [] position = POS_HIGH -> PULSEWIDTH_LOW
         IN  IF servo_index >= 0 /\ servo_index <= 3
             THEN [sp |-> [sp EXCEPT ![servo_index] = pulsewidth],
                   out |-> Append(out, RESP_SUCCESS)]
             ELSE [sp |-> sp, out |-> Append(out, RESP_ERROR)]

\* setServoPosition(servo_index, position): the store and the link afterwards
SetServoPosition(sp, out, servo_index, position) ==
    IF position \notin {POS_LOW, POS_MID, POS_HIGH}
    THEN [sp |-> sp, out |-> Append(out, RESP_ERROR)]
    ELSE LET pulsewidth == CASE position = POS_LOW -> PULSEWIDTH_LOW
                             [] position = POS_MID -> PULSEWIDTH_MID
                             [] position = POS_HIGH -> PULSEWIDTH_HIGH
         IN  IF servo_index >= 0 /\ servo_index <= 3
             THEN [sp |-> [sp EXCEPT ![servo_index] = pulsewidth],
                   out |-> Append(out, RESP_SUCCESS)]
             ELSE [sp |-> sp, out |-> Append(out, RESP_ERROR)]

\* queryServoPosition that reports an index out of range and answers anyway
QueryServoPosition_ErrorThenData(sp, out, servo_index) ==
    IF servo_index >= 0 /\ servo_index <= 3
    THEN out \o <<RESP_SUCCESS, servo_index,
                  ByteAt(sp[servo_index], 24), ByteAt(sp[servo_index], 16),
                  ByteAt(sp[servo_index], 8), ByteAt(sp[servo_index], 0)>>
    ELSE out \o <<RESP_ERROR, RESP_SUCCESS, servo_index, 0, 0, 0, 0>>

\* queryServoPosition(servo_index): the link afterwards
QueryServoPosition(sp, out, servo_index) ==
    IF servo_index >= 0 /\ servo_index <= 3
    THEN out \o <<RESP_SUCCESS, servo_index,
                  ByteAt(sp[servo_index], 24), ByteAt(sp[servo_index], 16),
                  ByteAt(sp[servo_index], 8), ByteAt(sp[servo_index], 0)>>
    ELSE Append(out, RESP_ERROR)

\* handleHandshake that also acknowledges with the success byte
HandleHandshake_WithStatus(out) == out \o <<RESP_SUCCESS, RESP_HANDSHAKE>>

\* handleHandshake()
HandleHandshake(out) == Append(out, RESP_HANDSHAKE)

\* setup(): the four initial moves, then the init-complete byte
S_Setup ==
    /\ fw = "structured" /\ pc = "setup"
    /\ LET r0 == SetServoPosition(servo_positions, tx, 0, POS_HIGH)
           r1 == SetServoPosition(r0.sp, r0.out, 1, POS_HIGH)
           r2 == SetServoPosition(r1.sp, r1.out, 2, POS_HIGH)
           r3 == SetServoPosition(r2.sp, r2.out, 3, POS_HIGH)
       IN  /\ servo_positions' = r3.sp
           /\ tx' = Append(r3.out, RESP_INIT_COMPLETE)
    /\ pc' = "loop"
    /\ UNCHANGED <<hostv, rx, spins, dstat, lstat, dhist, asciiStream, cmdLog>>

\* processSerialInput, lines 114-117 and 147-154: read the opcode; a Move or
\* Query opcode enters its wait loop, the others are answered at once
S_ReadCmd ==
    /\ fw = "structured" /\ pc = "loop"
    /\ Len(rx) > 0
    /\ LET cmd == Head(rx) IN
       /\ rx' = Tail(rx)
       /\ CASE cmd = CMD_SET_POSITION ->
                 /\ pc' = "waitMove"
                 /\ UNCHANGED <<tx, cmdLog>>
            [] cmd = CMD_QUERY_POSITION ->
                 /\ pc' = "waitQuery"
                 /\ UNCHANGED <<tx, cmdLog>>
            [] cmd = CMD_HANDSHAKE ->
                 /\ pc' = "loop"
                 /\ tx' = HandleHandshake(tx)
                 /\ cmdLog' = Append(cmdLog,
                        LogEntry("handshake", <<>>, Written(tx, tx'),
                                 servo_positions, servo_positions))
            [] OTHER ->
                 /\ pc' = "loop"
                 /\ tx' = Append(tx, RESP_ERROR)
                 /\ cmdLog' = Append(cmdLog,
                        LogEntry("unknown", <<cmd>>, Written(tx, tx'),
                                 servo_positions, servo_positions))
    /\ UNCHANGED <<hostv, servo_positions, spins, dstat, lstat, dhist,
                   asciiStream>>

\* the number of argument bytes the wait loop at pc waits for
S_Needed == IF pc = "waitMove" THEN 2 ELSE 1

\* lines 120-122 and 135-137: while (Serial.available() < n) delay(5);
S_Delay ==
    /\ fw = "structured" /\ pc \in {"waitMove", "waitQuery"}
    /\ Len(rx) < S_Needed
    /\ spins' = (spins + 1) % SpinWrap
    /\ UNCHANGED <<hostv, pc, rx, tx, servo_positions, dstat, lstat, dhist,
                   asciiStream, cmdLog>>

\* lines 123-130: the arguments are there; read them and set the position
S_DoMove ==
    /\ fw = "structured" /\ pc = "waitMove"
    /\ ~(Len(rx) < 2)
    /\ IF Len(rx) >= 2
       THEN LET servo_index == rx[1]
                position == rx[2]
                r == SetServoPosition(servo_positions, tx, servo_index, position)
            IN  /\ rx' = Tail(Tail(rx))
                /\ servo_positions' = r.sp
                /\ tx' = r.out
                /\ cmdLog' = Append(cmdLog,
                       LogEntry("move", <<servo_index, position>>,
                                Written(tx, r.out), servo_positions, r.sp))
       ELSE /\ tx' = Append(tx, RESP_ERROR)
            /\ UNCHANGED <<rx, servo_positions, cmdLog>>
    /\ pc' = "loop"
    /\ spins' = 0
    /\ UNCHANGED <<hostv, dstat, lstat, dhist, asciiStream>>

\* lines 138-144: the argument is there; read it and answer the query
S_DoQuery ==
    /\ fw = "structured" /\ pc = "waitQuery"
    /\ ~(Len(rx) < 1)
    /\ IF Len(rx) >= 1
       THEN LET servo_index == rx[1] IN
            /\ rx' = Tail(rx)
            /\ tx' = QueryServoPosition(servo_positions, tx, servo_index)
            /\ cmdLog' = Append(cmdLog,
                   LogEntry("query", <<servo_index>>, Written(tx, tx'),
                            servo_positions, servo_positions))
       ELSE /\ tx' = Append(tx, RESP_ERROR)
            /\ UNCHANGED <<rx, cmdLog>>
    /\ pc' = "loop"
    /\ spins' = 0
    /\ UNCHANGED <<hostv, servo_positions, dstat, lstat, dhist, asciiStream>>

\* the steps of the structured firmware
ProgS == S_Setup \/ S_ReadCmd \/ S_Delay \/ S_DoMove \/ S_DoQuery

---------------------------------------------------------------------------
(* Delimiter binary variant: src/ServoShutter/main_binary_protocol.cpp *)

\* moveServo that masks the channel instead of rejecting one above 3
MoveServo_NoRangeCheck(sp, servo, position) ==
    IF position \notin {0, 1, 2} THEN sp
    ELSE LET pulsewidth == CASE position = 0 -> PULSEWIDTH_LOW
                             [] position = 1 -> PULSEWIDTH_MID
                             [] position = 2 -> PULSEWIDTH_HIGH
         IN  [sp EXCEPT ![servo % 4] = pulsewidth]

\* moveServo whose level switch has no default: an unknown level stores the
\* uninitialised pulse width (0 here)
MoveServo_NoLevelCheck(sp, servo, position) ==
    IF servo > 3 THEN sp
    ELSE LET pulsewidth == CASE position = 0 -> PULSEWIDTH_LOW
                             [] position = 1 -> PULSEWIDTH_MID
                             [] position = 2 -> PULSEWIDTH_HIGH
                             [] OTHER -> 0
         IN  [sp EXCEPT ![servo] = pulsewidth]

\* moveServo(servo, position): the store afterwards (nothing is written)
MoveServo(sp, servo, position) ==
    IF servo > 3 THEN sp
    ELSE IF position \notin {0, 1, 2} THEN sp
    ELSE LET pulsewidth == CASE position = 0 -> PULSEWIDTH_LOW
                             [] position = 1 -> PULSEWIDTH_MID
                             [] position = 2 -> PULSEWIDTH_HIGH
         IN  [sp EXCEPT ![servo] = pulsewidth]

\* sendServoPosition(servo): the link afterwards
SendServoPosition(sp, out, servo) ==
    IF servo > 3
    THEN out \o <<CMD_START, RESP_STATUS_ERROR, 0, 0, CMD_END>>
    ELSE LET position == sp[servo] IN
         out \o <<CMD_START, RESP_STATUS_OK, servo,
                  ByteAt(position, 8), ByteAt(position, 0), CMD_END>>

\* what processCommand makes of cmd[0..len-1]: the command variant it runs
CommandKind(cmd) ==
    IF Len(cmd) < 2 THEN "short"
    ELSE CASE cmd[1] = CMD_MOVE -> "move"
           [] cmd[1] = CMD_QUERY -> "query"
           [] OTHER -> "unknown"

\* the arguments processCommand extracts from the parameter byte
CommandArgs(cmd) ==
    IF Len(cmd) < 2 THEN <<>>
    ELSE CASE cmd[1] = CMD_MOVE -> <<(cmd[2] \div 16) % 16, cmd[2] % 16>>
           [] cmd[1] = CMD_QUERY -> <<cmd[2] % 16>>
           [] OTHER -> <<cmd[1]>>

\* processCommand(cmd, len): the store and the link afterwards
ProcessCommand(sp, out, cmd) ==
    IF Len(cmd) < 2 THEN [sp |-> sp, out |-> out]
    ELSE LET cmdType == cmd[1]
             param == cmd[2]
         IN  CASE cmdType = CMD_MOVE ->
                    [sp |-> MoveServo(sp, (param \div 16) % 16, param % 16),
                     out |-> out]
               [] cmdType = CMD_QUERY ->
                    [sp |-> sp, out |-> SendServoPosition(sp, out, param % 16)]
               [] OTHER -> [sp |-> sp, out |-> out]

\* main(), lines 207-219: the banner and the four initial moves
D_Setup ==
    /\ fw = "delimiter" /\ pc = "setup"
    /\ tx' = tx \o TextInitializing \o <<ChLF>>
    /\ servo_positions' =
         MoveServo(MoveServo(MoveServo(MoveServo(servo_positions, 0, 2), 1, 2),
                             2, 2), 3, 2)
    /\ pc' = "bin"
    /\ UNCHANGED <<hostv, rx, spins, dstat, lstat, dhist, asciiStream, cmdLog>>

\* the decoder that starts every poll with an empty buffer (no static state)
DecoderAtPoll_Fresh(st) == [buf |-> <<>>, pos |-> 0, inCmd |-> FALSE]

\* processSerialInput, lines 103-105: cmdBuffer, bufferPos and inCommand are
\* static, so a poll starts from what the previous poll left
DecoderAtPoll(st) == st

\* a start byte that keeps the partial frame instead of discarding it
OnStartByte_Keep(st) == [st EXCEPT !.inCmd = TRUE]

\* lines 114-118: the start byte resets the buffer and enters a frame
\* (cmdBuffer is modelled up to bufferPos; what lies beyond is never read)
OnStartByte(st) == [buf |-> <<>>, pos |-> 0, inCmd |-> TRUE]

\* a payload byte stored without the bound check (it restarts the buffer)
OnPayloadByte_NoBound(st, byte) ==
    IF st.inCmd
    THEN IF st.pos < CmdBufferSize
         THEN [st EXCEPT !.buf = Append(st.buf, byte), !.pos = st.pos + 1]
         ELSE [st EXCEPT !.buf = <<byte>>, !.pos = 1]
    ELSE st

\* lines 128-130: a payload byte is stored while there is room, else dropped
OnPayloadByte(st, byte) ==
    IF st.inCmd /\ st.pos < CmdBufferSize
    THEN [st EXCEPT !.buf = Append(st.buf, byte), !.pos = st.pos + 1]
    ELSE st

\* the decoder state held in the three statics
DecoderState == [buf |-> cmdBuffer, pos |-> bufferPos, inCmd |-> inCommand]

\* processSerialInput, lines 111-130: one iteration of the read loop on byte;
\* st holds the statics, the store, the link and the histories
DecodeByte(st, byte) ==
    IF byte = CMD_START
    THEN LET d == OnStartByte([buf |-> st.buf, pos |-> st.pos, inCmd |-> st.inCmd])
         IN  [st EXCEPT !.buf = d.buf, !.pos = d.pos, !.inCmd = d.inCmd]
    ELSE IF byte = CMD_END /\ st.inCmd
    THEN LET cmd == SubSeq(st.buf, 1, st.pos)
             r == ProcessCommand(st.sp, st.out, cmd)
         IN  [st EXCEPT !.sp = r.sp, !.out = r.out, !.inCmd = FALSE,
                        !.disp = Append(st.disp, cmd),
                        !.log = Append(st.log,
                            LogEntry(CommandKind(cmd), CommandArgs(cmd),
                                     Written(st.out, r.out), st.sp, r.sp))]
    ELSE LET d == OnPayloadByte([buf |-> st.buf, pos |-> st.pos,
                                 inCmd |-> st.inCmd], byte)
         IN  [st EXCEPT !.buf = d.buf, !.pos = d.pos, !.inCmd = d.inCmd]

\* lines 110-131: `while (serial.readable())` over the readable bytes
RECURSIVE DecodeBytes(_, _, _)
DecodeBytes(st, bytes, i) ==
    IF i > Len(bytes) THEN st
    ELSE LET next == DecodeByte(st, bytes[i]) IN
         \* (the test makes TLC evaluate next before it recurses)
         IF next.pos >= 0 THEN DecodeBytes(next, bytes, i + 1) ELSE next

\* processSerialInput: one call; it reads until nothing is readable
D_Bin ==
    /\ fw = "delimiter" /\ pc = "bin"
    /\ LET d == DecoderAtPoll(DecoderState)
           r == DecodeBytes([buf |-> d.buf, pos |-> d.pos, inCmd |-> d.inCmd,
                             sp |-> servo_positions, out |-> tx,
                             disp |-> dispatched, log |-> cmdLog], rx, 1)
       IN  /\ cmdBuffer' = r.buf
           /\ bufferPos' = r.pos
           /\ inCommand' = r.inCmd
           /\ servo_positions' = r.sp
           /\ tx' = r.out
           /\ dispatched' = r.disp
           /\ cmdLog' = r.log
    /\ binStream' = binStream \o rx
    /\ binPolls' = IF rx = <<>> THEN binPolls ELSE binPolls + 1
    /\ rx' = <<>>
    /\ pc' = "legacy"
    /\ UNCHANGED <<hostv, spins, legacyPos, lstat, asciiStream>>

\* handleLegacyCommand(cmd): the store afterwards
HandleLegacyCommand(sp, cmd) ==
    LET k == IndexOf(LegacyChars, cmd) IN
    IF k = 0 THEN sp
    ELSE MoveServo(sp, (k - 1) \div 3, (k - 1) % 3)

\* printf("%d: %u\n", servo + 1, servo_positions[servo])
LegacyQueryText(sp, servo) ==
    Decimal(servo + 1) \o <<ChColon, ChSpace>> \o Decimal(sp[servo]) \o <<ChLF>>

\* processLegacyInput, lines 175-199: the scan of buffer[i..bufferPos-1]; st
\* holds the store, the link, the log and bufferPos (1 after an incomplete
\* query, which ends the scan)
RECURSIVE LegacyScan(_, _, _)
LegacyScan(st, buf, i) ==
    IF ~(i < st.pos) THEN st
    ELSE LET c == buf[i + 1]
             nextChar == buf[i + 2]
             servo == nextChar - ChDigit1
             next ==
               IF c = ChQuery
               THEN IF i + 1 < st.pos
                    THEN IF nextChar >= ChDigit1 /\ nextChar <= ChDigit4
                         THEN LET out2 == st.out \o LegacyQueryText(st.sp, servo)
                              IN  [st EXCEPT !.out = out2,
                                      !.log = Append(st.log,
                                          LogEntry("lquery", <<servo>>,
                                                   Written(st.out, out2),
                                                   st.sp, st.sp))]
                         ELSE LET out2 == st.out \o TextInvalidQuery \o <<ChLF>>
                              IN  [st EXCEPT !.out = out2,
                                      !.log = Append(st.log,
                                          LogEntry("linvalid", <<nextChar>>,
                                                   Written(st.out, out2),
                                                   st.sp, st.sp))]
                    ELSE [st EXCEPT !.pos = 1,
                             !.log = Append(st.log,
                                 LogEntry("lpartial", <<>>, <<>>, st.sp, st.sp))]
               ELSE LET sp2 == HandleLegacyCommand(st.sp, c) IN
                    [st EXCEPT !.sp = sp2,
                        !.log = Append(st.log,
                            LogEntry("legacy", <<c>>, <<>>, st.sp, sp2))]
         IN  \* (the test makes TLC evaluate next before it recurses)
             IF next.pos >= 0
             THEN IF c = ChQuery
                  THEN IF i + 1 < st.pos THEN LegacyScan(next, buf, i + 2)
                       ELSE next
                  ELSE LegacyScan(next, buf, i + 1)
             ELSE next

\* processLegacyInput: one call.  Line 202 sets bufferPos to 0 after the
\* scan, whatever the scan left in it.
D_Legacy ==
    /\ fw = "delimiter" /\ pc = "legacy"
    /\ IF rx # <<>>
       THEN LET n == Min(Len(rx), LegacyBufferSize - legacyPos - 1)
                buf == SubSeq(rx, 1, n)
                r == LegacyScan([sp |-> servo_positions, out |-> tx,
                                 log |-> cmdLog, pos |-> legacyPos + n], buf, 0)
            IN  /\ rx' = SubSeq(rx, n + 1, Len(rx))
                /\ asciiStream' = asciiStream \o buf
                /\ servo_positions' = r.sp
                /\ tx' = r.out
                /\ cmdLog' = r.log
                /\ legacyPos' = 0
       ELSE UNCHANGED <<rx, asciiStream, servo_positions, tx, cmdLog, legacyPos>>
    /\ pc' = "bin"
    /\ UNCHANGED <<hostv, spins, cmdBuffer, bufferPos, inCommand, lstat, dhist>>

\* the steps of the delimiter firmware
ProgD == D_Setup \/ D_Bin \/ D_Legacy

---------------------------------------------------------------------------
(* Arduino ASCII variant: src/ServoShutter/main_arduino.cpp *)

\* handleServoCommand(cmd): only 'q', 'a' and 'z' have a case
HandleServoCommandA(sp, cmd) ==
    CASE cmd = 113 -> [sp EXCEPT ![0] = 1100]
      [] cmd = 97 -> [sp EXCEPT ![0] = 1400]
      [] cmd = 122 -> [sp EXCEPT ![0] = 1700]
      [] OTHER -> sp

\* Serial.print(servo_index + 1); Serial.print(": "); Serial.println(position)
ArduinoQueryText(sp, servo_index) ==
    Decimal(servo_index + 1) \o <<ChColon, ChSpace>>
        \o Decimal(sp[servo_index]) \o <<ChCR, ChLF>>

\* setup(): the four initial commands, then the banner
A_Setup ==
    /\ fw = "arduino" /\ pc = "setup"
    /\ servo_positions' =
         HandleServoCommandA(HandleServoCommandA(HandleServoCommandA(
             HandleServoCommandA(servo_positions, 122), 120), 99), 118)
    /\ tx' = tx \o TextInitializing \o <<ChCR, ChLF>>
    /\ pc' = "loop"
    /\ UNCHANGED <<hostv, rx, spins, dstat, lstat, dhist, asciiStream, cmdLog>>

\* processSerialInput: one call that finds a byte available
A_Poll ==
    /\ fw = "arduino" /\ pc = "loop"
    /\ Len(rx) > 0
    /\ LET c == rx[1] IN
       IF c = ChQuery
       THEN IF Len(rx) > 1
            THEN LET nextChar == rx[2] IN
                 /\ rx' = Tail(Tail(rx))
                 /\ asciiStream' = asciiStream \o <<c, nextChar>>
                 /\ IF nextChar >= ChDigit1 /\ nextChar <= ChDigit4
                    THEN LET servo_index == nextChar - ChDigit1 IN
                         /\ tx' = tx \o ArduinoQueryText(servo_positions,
                                                         servo_index)
                         /\ cmdLog' = Append(cmdLog,
                                LogEntry("lquery", <<servo_index>>,
                                         Written(tx, tx'), servo_positions,
                                         servo_positions))
                    ELSE /\ tx' = tx \o TextInvalidQuery \o <<ChCR, ChLF>>
                         /\ cmdLog' = Append(cmdLog,
                                LogEntry("linvalid", <<nextChar>>,
                                         Written(tx, tx'), servo_positions,
                                         servo_positions))
                 /\ UNCHANGED servo_positions
            ELSE /\ rx' = Tail(rx)
                 /\ asciiStream' = Append(asciiStream, c)
                 /\ cmdLog' = Append(cmdLog,
                        LogEntry("lpartial", <<>>, <<>>, servo_positions,
                                 servo_positions))
                 /\ UNCHANGED <<tx, servo_positions>>
       ELSE /\ rx' = Tail(rx)
            /\ asciiStream' = Append(asciiStream, c)
            /\ servo_positions' = HandleServoCommandA(servo_positions, c)
            /\ cmdLog' = Append(cmdLog,
                   LogEntry("legacy", <<c>>, <<>>, servo_positions,
                            servo_positions'))
            /\ UNCHANGED tx
    /\ UNCHANGED <<hostv, pc, spins, dstat, lstat, dhist>>

\* the steps of the arduino firmware
ProgA == A_Setup \/ A_Poll

---------------------------------------------------------------------------
(* Line-terminated ASCII variant: src/ServoShutter/main_sonnet.cpp *)

\* handleServoCommand(cmd): the store and the link afterwards
HandleServoCommandL(sp, out, cmd) ==
    LET k == IndexOf(LegacyChars, cmd) IN
    IF k # 0
    THEN LET pulsewidth == CASE (k - 1) % 3 = 0 -> PULSEWIDTH_LOW
                             [] (k - 1) % 3 = 1 -> PULSEWIDTH_MID
                             [] OTHER -> PULSEWIDTH_HIGH
         IN  [sp |-> [sp EXCEPT ![(k - 1) \div 3] = pulsewidth], out |-> out]
    ELSE [sp |-> sp,
          out |-> out \o TextInvalidServoCommand \o <<cmd, ChLF>>]

\* sendQueryResponse(servo_index): sprintf("%d: %u\r\n", ...) written out
SendQueryResponse(sp, out, servo_index) ==
    out \o Decimal(servo_index + 1) \o <<ChColon, ChSpace>>
        \o Decimal(sp[servo_index]) \o <<ChCR, ChLF>>

\* cmd[i] of the NUL-terminated string held in buf
CharAt(buf, i) == IF i < Len(buf) THEN buf[i + 1] ELSE 0

\* the C string in buf: its bytes up to the first NUL
CStr(buf) ==
    LET z == IndexOf(buf, 0) IN
    IF z = 0 THEN buf ELSE SubSeq(buf, 1, z - 1)

\* strchr("qazwsxedcrfv", c) != NULL (the terminator matches c = 0)
StrChrLegacy(c) == c = 0 \/ IndexOf(LegacyChars, c) # 0

\* which branch processCommand takes for the line in buf
LineKind(buf) ==
    IF CharAt(buf, 0) = ChQuery /\ CharAt(buf, 1) >= ChDigit1
                                /\ CharAt(buf, 1) <= ChDigit4
    THEN "lquery"
    ELSE IF StrChrLegacy(CharAt(buf, 0)) THEN "legacy" ELSE "unknown"

\* processCommand(cmd): the store and the link afterwards
ProcessCommandL(sp, out, buf) ==
    CASE LineKind(buf) = "lquery" ->
           [sp |-> sp,
            out |-> SendQueryResponse(sp, out, CharAt(buf, 1) - ChDigit1)]
      [] LineKind(buf) = "legacy" -> HandleServoCommandL(sp, out, CharAt(buf, 0))
      [] OTHER ->
           [sp |-> sp, out |-> out \o TextUnknownCommand \o CStr(buf) \o <<ChLF>>]

\* a full command buffer that is reset by the byte that does not fit
OnLineByte_Reset(st, c) ==
    IF st.pos < CmdLineSize - 1
    THEN [st EXCEPT !.buf = Append(st.buf, c), !.pos = st.pos + 1]
    ELSE [st EXCEPT !.buf = <<>>, !.pos = 0]

\* a command buffer whose bound check leaves no room for the terminating NUL
OnLineByte_NoRoomForNul(st, c) ==
    IF st.pos < CmdLineSize
    THEN [st EXCEPT !.buf = Append(st.buf, c), !.pos = st.pos + 1]
    ELSE st

\* lines 89-92: a byte that is no terminator is stored while there is room
OnLineByte(st, c) ==
    IF st.pos < CmdLineSize - 1
    THEN [st EXCEPT !.buf = Append(st.buf, c), !.pos = st.pos + 1]
    ELSE st

\* processSerialInput, lines 79-92: one iteration of the for loop on c
LineByte(st, c) ==
    IF c = ChCR \/ c = ChLF
    THEN IF st.pos > 0
         THEN LET r == ProcessCommandL(st.sp, st.out, st.buf) IN
              [st EXCEPT !.sp = r.sp, !.out = r.out, !.buf = <<>>, !.pos = 0,
                         !.log = Append(st.log,
                             LogEntry(LineKind(st.buf), st.buf,
                                      Written(st.out, r.out), st.sp, r.sp))]
         ELSE st
    ELSE OnLineByte(st, c)

\* lines 78-93: the for loop over the bytes read
RECURSIVE LineBytes(_, _, _)
LineBytes(st, bytes, i) ==
    IF i > Len(bytes) THEN st
    ELSE LET next == LineByte(st, bytes[i]) IN
         \* (the test makes TLC evaluate next before it recurses)
         IF next.pos >= 0 THEN LineBytes(next, bytes, i + 1) ELSE next

\* main(), lines 98-114: banner, the four initial commands, buffer reset
L_Setup ==
    /\ fw = "line" /\ pc = "setup"
    /\ LET out0 == tx \o TextInitializing \o <<ChLF>>
           r0 == HandleServoCommandL(servo_positions, out0, 122)
           r1 == HandleServoCommandL(r0.sp, r0.out, 120)
           r2 == HandleServoCommandL(r1.sp, r1.out, 99)
           r3 == HandleServoCommandL(r2.sp, r2.out, 118)
       IN  /\ servo_positions' = r3.sp
           /\ tx' = r3.out
    /\ cmd_pos' = 0
    /\ cmd_buffer' = <<>>
    /\ pc' = "loop"
    /\ UNCHANGED <<hostv, rx, spins, dstat, dhist, asciiStream, cmdLog>>

\* processSerialInput: one call that finds the link readable; it reads at
\* most sizeof(buffer) - 1 bytes
L_Poll ==
    /\ fw = "line" /\ pc = "loop"
    /\ rx # <<>>
    /\ LET bytes_read == Min(Len(rx), ReadBufferSize - 1)
           buffer == SubSeq(rx, 1, bytes_read)
           r == LineBytes([buf |-> cmd_buffer, pos |-> cmd_pos,
                           sp |-> servo_positions, out |-> tx, log |-> cmdLog],
                          buffer, 1)
       IN  /\ rx' = SubSeq(rx, bytes_read + 1, Len(rx))
           /\ asciiStream' = asciiStream \o buffer
           /\ cmd_buffer' = r.buf
           /\ cmd_pos' = r.pos
           /\ servo_positions' = r.sp
           /\ tx' = r.out
           /\ cmdLog' = r.log
    /\ UNCHANGED <<hostv, pc, spins, dstat, dhist>>

\* the steps of the line firmware
ProgL == L_Setup \/ L_Poll

---------------------------------------------------------------------------
(* The host and the link *)

\* messages the host may send to the structured firmware
TokensS ==
    {<<CMD_SET_POSITION, c, l>> : c \in {0, 1, 2, 3, 7}, l \in {1, 2, 3, 9}}
    \cup {<<CMD_QUERY_POSITION, c>> : c \in {0, 1, 2, 3, 7}}
    \cup {<<CMD_HANDSHAKE>>, <<9>>, <<CMD_SET_POSITION>>, <<CMD_QUERY_POSITION>>}

\* the profiles of Move and Query traffic, one per channel
ChannelProfiles == {"ch0", "ch1", "ch2", "ch3"}

\* the profiles whose messages reach the receive buffer in one piece
WholeProfiles == ChannelProfiles \cup {"errors"}

\* delimiter frames
MoveFrame(c, l) == <<CMD_START, CMD_MOVE, 16 * c + l, CMD_END>>
QueryFrame(c) == <<CMD_START, CMD_QUERY, c, CMD_END>>

\* the overlong frame: a start byte and one payload byte more than fits
Overlong == <<CMD_START>> \o Fill(CMD_QUERY, CmdBufferSize + 1)

\* the overlong line: 'q' and as many 'x' as make one character too many
LongLine == <<113>> \o Fill(120, CmdLineSize - 1)

\* messages the host may send to the delimiter firmware, by profile
TokensD ==
    CASE profile \in ChannelProfiles ->
           LET c == CHOOSE k \in Channels :
                        profile = <<"ch0", "ch1", "ch2", "ch3">>[k + 1]
           IN  {MoveFrame(c, l) : l \in 0..2}
                   \cup {QueryFrame(c), MoveFrame((c + 1) % 4, 0)}
      [] profile = "errors" ->
           {MoveFrame(7, 0), MoveFrame(0, 9), MoveFrame(2, 1), QueryFrame(7),
            QueryFrame(0),
            <<CMD_START, 9, 0, CMD_END>>, <<CMD_START, CMD_MOVE, CMD_END>>}
      [] profile = "resync" ->
           {MoveFrame(1, 0), QueryFrame(1), <<CMD_START, CMD_MOVE, 16>>,
            <<CMD_END>>}
      [] profile = "overflow" ->
           {Overlong, QueryFrame(2), <<CMD_END>>}
      [] profile = "legacy" ->
           {<<113>>, <<115>>, <<107>>, <<ChQuery>>, <<ChQuery, 49>>,
            <<ChQuery, 50>>, <<ChQuery, 57>>, QueryFrame(0)}
      [] OTHER -> {}

\* messages the host may send to the arduino firmware
TokensA ==
    {<<113>>, <<97>>, <<122>>, <<119>>, <<ChQuery>>, <<ChQuery, 49>>,
     <<ChQuery, 50>>, <<ChQuery, 57>>}

\* messages the host may send to the line firmware
TokensL ==
    {<<113, ChLF>>, <<115, ChCR, ChLF>>, <<ChQuery, 49, ChLF>>,
     <<ChQuery, 57, ChLF>>, <<113, 122, ChLF>>, <<ChQuery, 49, 120, ChLF>>,
     <<107, ChLF>>, <<ChLF>>, <<ChQuery, 49>>, <<ChQuery, ChLF>>,
     LongLine}

Tokens ==
    CASE fw = "structured" -> TokensS
      [] fw = "delimiter" -> TokensD
      [] fw = "arduino" -> TokensA
      [] fw = "line" -> TokensL

\* the host sends one message once the firmware is up and the previous
\* message has left the wire
SendTok ==
    /\ pc # "setup"
    /\ sends < MaxSends
    /\ wire = <<>>
    /\ \E t \in Tokens : wire' = t
    /\ sends' = sends + 1
    /\ UNCHANGED <<fw, profile, late, pc, rx, tx, servo_positions, spins, dstat,
                   lstat, dhist, asciiStream, cmdLog>>

\* how many bytes may arrive together: what is left of the message, or a
\* single byte of a short message
ArriveSizes ==
    {Len(wire)} \cup (IF Len(wire) <= MaxSplit /\ profile \notin WholeProfiles
                      THEN {1} ELSE {})

\* an arrival is late when it falls between the delimiter firmware's two
\* processors: processLegacyInput, not the decoder, then reads it
IsLate == fw = "delimiter" /\ pc = "legacy"

\* the next n bytes on the wire reach the receive buffer
Arrive ==
    /\ wire # <<>>
    /\ IsLate => late < MaxLateArrivals
    /\ \E n \in ArriveSizes :
         /\ rx' = rx \o SubSeq(wire, 1, n)
         /\ wire' = SubSeq(wire, n + 1, Len(wire))
    /\ late' = IF IsLate THEN late + 1 ELSE late
    /\ UNCHANGED <<fw, profile, sends, pc, tx, servo_positions, spins, dstat,
                   lstat, dhist, asciiStream, cmdLog>>

Env == SendTok \/ Arrive

---------------------------------------------------------------------------
(* Specifications *)

ProfilesD == ChannelProfiles \cup {"errors", "resync", "overflow", "legacy"}

\* the state after construction of firmware f, the host drawing from P
InitFw(f, P) ==
    /\ fw = f
    /\ profile \in P
    /\ servo_positions =
         [c \in Channels |-> IF f = "arduino" THEN ARDUINO_INITIAL
                             ELSE PULSEWIDTH_HIGH]
    /\ pc = "setup"
    /\ wire = <<>> /\ rx = <<>> /\ sends = 0 /\ late = 0 /\ tx = <<>>
    /\ spins = 0
    /\ cmdBuffer = <<>> /\ bufferPos = 0 /\ inCommand = FALSE
    /\ legacyPos = 0
    /\ cmd_buffer = <<>> /\ cmd_pos = 0
    /\ binStream = <<>> /\ binPolls = 0 /\ asciiStream = <<>>
    /\ dispatched = <<>> /\ cmdLog = <<>>

InitS == InitFw("structured", {"all"})
InitD == InitFw("delimiter", ProfilesD)
InitDFraming == InitFw("delimiter", {"resync", "overflow"})
InitA == InitFw("arduino", {"ascii"})
InitL == InitFw("line", {"lines"})
InitBin == InitS \/ InitD
InitRoundTrip == InitS \/ InitFw("delimiter", ChannelProfiles)
InitAscii == InitA \/ InitFw("delimiter", {"legacy"})
Init == InitS \/ InitD \/ InitA \/ InitL

NextS == Env \/ ProgS
NextD == Env \/ ProgD
NextL == Env \/ ProgL
NextBin == Env \/ ProgS \/ ProgD
NextAscii == Env \/ ProgA \/ ProgD
Next == Env \/ ProgS \/ ProgD \/ ProgA \/ ProgL

\* the firmwares that buffer their input, under traffic that fills the buffers
InitBuffers == InitFw("delimiter", {"overflow"}) \/ InitL
NextBuffers == Env \/ ProgD \/ ProgL
SpecBuffers == InitBuffers /\ [][NextBuffers]_vars
\* all four firmwares
Spec == Init /\ [][Next]_vars
\* the structured firmware
SpecS == InitS /\ [][NextS]_vars
\* the structured firmware; its loop keeps running, while nothing obliges
\* the host to send
FairSpecS == InitS /\ [][NextS]_vars /\ WF_vars(ProgS)
\* the delimiter firmware, every profile
SpecD == InitD /\ [][NextD]_vars
\* the delimiter firmware under framing traffic
SpecDFraming == InitDFraming /\ [][NextD]_vars
\* the two binary firmwares
SpecBin == InitBin /\ [][NextBin]_vars
\* the two binary firmwares under Move and Query traffic
SpecRoundTrip == InitRoundTrip /\ [][NextBin]_vars
\* the firmwares that accept the query grammar byte by byte
SpecAscii == InitAscii /\ [][NextAscii]_vars
\* all four firmwares under traffic that holds valid and invalid commands
InitStore ==
    InitS \/ InitFw("delimiter", {"errors", "legacy"}) \/ InitA \/ InitL
SpecStore == InitStore /\ [][Next]_vars
\* the line firmware
SpecL == InitL /\ [][NextL]_vars

---------------------------------------------------------------------------
(* Claims *)

\* the log entries of the command variant kind, in order
EntriesOf(kind) ==
    LET IsKind(e) == e.kind = kind IN SelectSeq(cmdLog, IsKind)

\* C1: every call of processSerialInput of the structured firmware returns
\* to the main loop: once it has read a Move or Query opcode and waits for
\* the argument bytes, it eventually leaves the wait, also when the sender
\* never delivers them.
C1_PollReturns == (pc \in {"waitMove", "waitQuery"}) ~> (pc = "loop")

\* the delimiter firmware as setup leaves it, before any byte is decoded
PowerOnDecoder ==
    [buf |-> <<>>, pos |-> 0, inCmd |-> FALSE,
     sp |-> [c \in Channels |-> PULSEWIDTH_HIGH],
     out |-> TextInitializing \o <<ChLF>>, disp |-> <<>>, log |-> <<>>]

\* what one poll makes of the whole stream the decoder has read so far
OnePoll == DecodeBytes(PowerOnDecoder, binStream, 1)

\* C2: chunking invariance of the delimiter decoder: however the bytes read
\* so far were partitioned into polls, the commands dispatched, the decoder's
\* statics, the responses written and the position store are those of a
\* single poll that reads the same bytes in one piece.
C2_ChunkingInvariance ==
    (fw = "delimiter" /\ pc # "setup") =>
        LET one == OnePoll IN
        /\ dispatched = one.disp
        /\ cmdBuffer = one.buf
        /\ bufferPos = one.pos
        /\ inCommand = one.inCmd
        /\ tx = one.out
        /\ servo_positions = one.sp

\* C2 witness: a Move frame read one byte per poll has been dispatched
C2_FrameReadInFourPolls ==
    /\ fw = "delimiter"
    /\ binStream = MoveFrame(1, 0)
    /\ binPolls = 4
    /\ dispatched = <<(<<CMD_MOVE, 16>>)>>
    /\ servo_positions[1] = PULSEWIDTH_LOW

\* the channels of the queries `?d` that a processor answers when it sees
\* the bytes s[i..] in one piece
RECURSIVE QueriesUnsplit(_, _)
QueriesUnsplit(s, i) ==
    IF i > Len(s) THEN <<>>
    ELSE IF s[i] # ChQuery THEN QueriesUnsplit(s, i + 1)
    ELSE IF i + 1 > Len(s) THEN <<>>
    ELSE IF s[i + 1] >= ChDigit1 /\ s[i + 1] <= ChDigit4
         THEN <<s[i + 1] - ChDigit1>> \o QueriesUnsplit(s, i + 2)
         ELSE QueriesUnsplit(s, i + 2)

\* the bytes s[i..], seen in one piece, end with a `?` that awaits its digit
RECURSIVE QueryPending(_, _)
QueryPending(s, i) ==
    IF i > Len(s) THEN FALSE
    ELSE IF s[i] # ChQuery THEN QueryPending(s, i + 1)
    ELSE IF i + 1 > Len(s) THEN TRUE
    ELSE QueryPending(s, i + 2)

\* the channels of the queries answered so far
AnsweredQueries ==
    LET q == EntriesOf("lquery") IN [k \in 1..Len(q) |-> q[k].args[1]]

\* C3: chunking invariance of the legacy query grammar: the queries answered
\* are those of the same bytes seen in one piece (a `?` and its digit split
\* over two polls are still one query, the digit is no command of its own),
\* and processLegacyInput retains an incomplete `?` between polls.
C3_QuerySplitInvariance ==
    /\ AnsweredQueries = QueriesUnsplit(asciiStream, 1)
    /\ (fw = "delimiter" /\ QueryPending(asciiStream, 1)) => legacyPos = 1

\* the log entry is a Move with a valid channel and a valid level code
ValidMove(e) ==
    /\ e.kind = "move"
    /\ e.args[1] \in Channels
    /\ e.args[2] \in (IF fw = "structured" THEN {1, 2, 3} ELSE {0, 1, 2})

\* the two value bytes, most significant first, that a query must carry
\* after a Move to the level with code l
LevelBytes(l) ==
    LET code == IF fw = "structured" THEN l - 1 ELSE l IN
    CASE code = 0 -> <<4, 76>>
      [] code = 1 -> <<5, 120>>
      [] code = 2 -> <<6, 164>>

\* the Query response for channel c after a Move to the level with code l
RoundTripResponse(c, l) ==
    IF fw = "structured"
    THEN <<0, c, 0, 0>> \o LevelBytes(l)
    ELSE <<255, 0, c>> \o LevelBytes(l) \o <<254>>

\* C4: Move-then-Query round trip in both binary variants: a Query(c) that
\* follows a valid Move(c, level), with no change of channel c in between,
\* is answered with status OK, channel c and the big-endian encoding of
\* exactly 1100, 1400 or 1700.
C4_MoveQueryRoundTrip ==
    fw \in {"structured", "delimiter"} =>
        \A i \in 1..Len(cmdLog) : \A j \in 1..Len(cmdLog) :
            ( /\ j < i
              /\ cmdLog[i].kind = "query"
              /\ ValidMove(cmdLog[j])
              /\ cmdLog[i].args = <<cmdLog[j].args[1]>>
              /\ \A k \in (j + 1)..(i - 1) :
                     cmdLog[k].post[cmdLog[j].args[1]]
                         = cmdLog[k].pre[cmdLog[j].args[1]] )
            => cmdLog[i].resp
                   = RoundTripResponse(cmdLog[j].args[1], cmdLog[j].args[2])

\* C4 witness: the delimiter firmware has answered a Query of channel 2 that
\* followed a Move of channel 2 to Low
C4_QueriedAfterMove ==
    /\ fw = "delimiter"
    /\ Len(cmdLog) = 2
    /\ cmdLog[1].kind = "move" /\ cmdLog[1].args = <<2, 0>>
    /\ cmdLog[2].kind = "query" /\ cmdLog[2].args = <<2>>
    /\ cmdLog[2].resp = <<255, 0, 2, 4, 76, 254>>

\* the log entry is a complete command of a binary variant that is not valid
InvalidCommand(e) ==
    \/ e.kind = "move" /\ ~ValidMove(e)
    \/ e.kind = "query" /\ e.args[1] \notin Channels
    \/ e.kind = "unknown"

\* the error response of the binary variant
ErrorResponse ==
    IF fw = "structured" THEN <<RESP_ERROR>>
    ELSE <<CMD_START, RESP_STATUS_ERROR, 0, 0, CMD_END>>

\* C5: in both binary variants every complete command that is not valid (a
\* Move with a bad channel or level, a Query with a bad channel, an unknown
\* opcode) is answered with the variant's error response.
C5_InvalidCommandAnswered ==
    fw \in {"structured", "delimiter"} =>
        \A i \in 1..Len(cmdLog) :
            InvalidCommand(cmdLog[i]) => cmdLog[i].resp = ErrorResponse

\* the pulse width of the level with code l in the delimiter variant
LevelWidth(l) ==
    CASE l = 0 -> 1100
      [] l = 1 -> 1400
      [] l = 2 -> 1700

\* C6: in the delimiter variant a well-formed Move frame with a valid channel
\* and level updates the position store and makes the firmware write a
\* success status response.
C6_ValidMoveAcknowledged ==
    fw = "delimiter" =>
        \A i \in 1..Len(cmdLog) :
            ValidMove(cmdLog[i]) =>
                /\ cmdLog[i].post =
                       [cmdLog[i].pre EXCEPT ![cmdLog[i].args[1]] =
                                                 LevelWidth(cmdLog[i].args[2])]
                /\ cmdLog[i].resp # <<>>
                /\ \E k \in 1..Len(cmdLog[i].resp) :
                       cmdLog[i].resp[k] = RESP_STATUS_OK

\* C7: idempotence of Move: when the same valid Move is processed twice in a
\* row, the second leaves the store as the first left it, and the link
\* receives the same success response for both.
C7_MoveIdempotent ==
    fw \in {"structured", "delimiter"} =>
        \A i \in 1..(Len(cmdLog) - 1) :
            ( /\ ValidMove(cmdLog[i])
              /\ cmdLog[i + 1].kind = "move"
              /\ cmdLog[i + 1].args = cmdLog[i].args )
            => /\ cmdLog[i + 1].post = cmdLog[i].post
               /\ cmdLog[i + 1].resp = cmdLog[i].resp
               /\ cmdLog[i].resp # <<>>

\* the positions of s that hold one of the two frame markers
Markers(s) == {i \in 1..Len(s) : s[i] \in {CMD_START, CMD_END}}

\* the position of the last marker of s before position j, 0 when none
LastMarker(s, j) ==
    LET before == {i \in Markers(s) : i < j} IN
    IF before = {} THEN 0
    ELSE CHOOSE i \in before : \A k \in before : k <= i

\* the positions of the end bytes of s that close a frame: the nearest
\* marker before them is a start byte
FrameEnds(s) ==
    {j \in 1..Len(s) : /\ s[j] = CMD_END
                       /\ LastMarker(s, j) # 0
                       /\ s[LastMarker(s, j)] = CMD_START}

\* the payload of the frame that the end byte at position j closes: the
\* bytes after the nearest start byte, as many as the buffer holds
FramePayload(s, j) ==
    LET own == SubSeq(s, LastMarker(s, j) + 1, j - 1)
    IN  SubSeq(own, 1, Min(Len(own), CmdBufferSize))

\* the payloads of the frames of s, in order
Frames(s) ==
    LET ends == FrameEnds(s)
        nth(k) == CHOOSE j \in ends : Cardinality({e \in ends : e <= j}) = k
    IN  [k \in 1..Cardinality(ends) |-> FramePayload(s, nth(k))]

\* C8: resynchronization of the delimiter decoder: a start byte received
\* while a frame is buffered discards what was buffered (buffer position 0,
\* still buffering); no discarded byte is ever dispatched: every frame is
\* dispatched with exactly the bytes that follow its own start byte.
C8_Resynchronization ==
    fw = "delimiter" =>
        /\ (binStream # <<>> /\ binStream[Len(binStream)] = CMD_START) =>
               (bufferPos = 0 /\ cmdBuffer = <<>> /\ inCommand)
        /\ dispatched = Frames(binStream)

\* C8 witness: a Query frame that followed an unfinished Move frame has been
\* dispatched and answered
C8_FrameAfterPartialFrame ==
    /\ fw = "delimiter"
    /\ binStream = <<CMD_START, CMD_MOVE, 16>> \o QueryFrame(1)
    /\ dispatched = <<(<<CMD_QUERY, 1>>)>>
    /\ cmdLog[Len(cmdLog)].kind = "query"
    /\ cmdLog[Len(cmdLog)].resp = <<255, 0, 1, 6, 164, 254>>

\* the bytes of s after its last start byte, up to the end of s
OpenFrame(s) ==
    LET starts == {i \in 1..Len(s) : s[i] = CMD_START} IN
    IF starts = {} THEN <<>>
    ELSE SubSeq(s, (CHOOSE i \in starts : \A k \in starts : k <= i) + 1, Len(s))

\* s ends with a frame that is too long and not yet closed
Overflowing(s) ==
    LET open == OpenFrame(s) IN
    /\ \E i \in 1..Len(s) : s[i] = CMD_START
    /\ Len(open) > CmdBufferSize
    /\ \A k \in 1..Len(open) : open[k] # CMD_END

\* s ends with a well-formed frame: start byte, at most 16 payload bytes that
\* are no markers, end byte
EndsWellFormed(s) ==
    LET open == OpenFrame(s) IN
    /\ Len(s) >= 2
    /\ s[Len(s)] = CMD_END
    /\ \E i \in 1..Len(s) : s[i] = CMD_START
    /\ Len(open) - 1 <= CmdBufferSize
    /\ \A k \in 1..(Len(open) - 1) : open[k] # CMD_END

\* C9: overflow containment in the delimiter decoder: the buffer never holds
\* more than 16 bytes; when more than 16 payload bytes follow a start byte
\* the excess is dropped and the decoder keeps buffering; and a well-formed
\* frame is dispatched with its own payload and nothing else, whatever
\* overlong frame preceded it.
C9_OverflowContainment ==
    fw = "delimiter" =>
        LET open == OpenFrame(binStream) IN
        /\ bufferPos <= CmdBufferSize /\ Len(cmdBuffer) = bufferPos
        /\ Overflowing(binStream) =>
               /\ inCommand
               /\ bufferPos = CmdBufferSize
               /\ cmdBuffer = SubSeq(open, 1, CmdBufferSize)
        /\ EndsWellFormed(binStream) =>
               /\ dispatched # <<>>
               /\ dispatched[Len(dispatched)] = SubSeq(open, 1, Len(open) - 1)
               /\ ~inCommand

\* C9 witness: a Query frame that followed an overlong frame has been
\* dispatched and answered
C9_FrameAfterOverflow ==
    /\ fw = "delimiter"
    /\ binStream = Overlong \o QueryFrame(2)
    /\ dispatched = <<(<<CMD_QUERY, 2>>)>>
    /\ cmdLog[Len(cmdLog)].resp = <<255, 0, 2, 6, 164, 254>>

\* the positions of the line terminators of s
Terminators(s) == {i \in 1..Len(s) : s[i] \in {ChCR, ChLF}}

\* the position of the last terminator of s before position j, 0 when none
LastTerminator(s, j) ==
    LET before == {i \in Terminators(s) : i < j} IN
    IF before = {} THEN 0
    ELSE CHOOSE i \in before : \A k \in before : k <= i

\* the bytes of s from position i to j, as many as the command buffer holds
KeptOf(s, i, j) ==
    SubSeq(s, i, Min(j, i + CmdLineSize - 2))

\* the line the decoder is collecting: what it read after the last terminator
CurrentLine == SubSeq(asciiStream, LastTerminator(asciiStream,
                          Len(asciiStream) + 1) + 1, Len(asciiStream))

\* the lines handed to processCommand for the bytes of s: the non-empty
\* lines, each cut to what the command buffer holds
LinesOf(s) ==
    LET ends == {j \in Terminators(s) : LastTerminator(s, j) + 1 < j}
        nth(k) == CHOOSE j \in ends : Cardinality({e \in ends : e <= j}) = k
    IN  [k \in 1..Cardinality(ends) |->
            KeptOf(s, LastTerminator(s, nth(k)) + 1, nth(k) - 1)]

\* C10 as stated: a line that grows beyond 127 characters resets the
\* command buffer, so that what was accumulated is discarded.
C10_OverlongLineResets ==
    (fw = "line" /\ Len(CurrentLine) = CmdLineSize) =>
        (cmd_pos = 0 /\ cmd_buffer = <<>>)

\* C10 amended: the bytes beyond 127 characters are dropped one by one while
\* the buffer is kept: cmd_pos stays at 127, the buffer holds the first 127
\* characters of the line, and these are dispatched at the next CR or LF.
C10_OverlongLineTruncated ==
    fw = "line" =>
        /\ cmd_pos = Len(cmd_buffer)
        /\ cmd_buffer = KeptOf(CurrentLine, 1, Len(CurrentLine))
        /\ Len(CurrentLine) >= CmdLineSize - 1 => cmd_pos = CmdLineSize - 1
        /\ [k \in 1..Len(cmdLog) |-> cmdLog[k].args] = LinesOf(asciiStream)

\* C10 witness: a line of 128 characters has been closed by LF, and its
\* first 127 characters were dispatched as one command
C10_OverlongLineDispatched ==
    /\ fw = "line"
    /\ asciiStream = LongLine \o <<ChLF>>
    /\ Len(cmdLog) = 1
    /\ cmdLog[1].args = SubSeq(LongLine, 1, CmdLineSize - 1)
    /\ cmd_pos = 0

\* the receive buffer r starts with a complete command of firmware f: every
\* byte the command needs is there
CompleteCommandAt(f, r) ==
    /\ r # <<>>
    /\ CASE f = "structured" ->
              Len(r) >= (CASE r[1] = CMD_SET_POSITION -> 3
                           [] r[1] = CMD_QUERY_POSITION -> 2
                           [] OTHER -> 1)
         [] f = "arduino" -> Len(r) >= (IF r[1] = ChQuery THEN 2 ELSE 1)
         [] f = "delimiter" ->
              \/ r[1] # ChQuery
              \/ Len(r) >= 2
         [] OTHER -> FALSE

\* C11: when the input available at one poll holds several complete
\* commands, all of them are dispatched during that poll, in order: a poll
\* that has handled a command leaves no complete command unread.
C11_AllDispatchedInOnePoll ==
    [][(/\ fw \in {"structured", "arduino", "delimiter"}
        /\ wire' = wire
        /\ Len(cmdLog') > Len(cmdLog))
       => ~CompleteCommandAt(fw, rx')]_vars

\* C12: in every firmware, when initialization has finished and before any
\* command is processed, the position store holds High (1700) for all four
\* channels.
C12_StoreHighAfterSetup ==
    (pc # "setup" /\ cmdLog = <<>>) =>
        \A c \in Channels : servo_positions[c] = 1700

\* the text line "1: 1100" that answers `?1` when channel 0 is Low
TextChannel1Low == <<49, 58, 32, 49, 49, 48, 48, 10>>

\* byte b is among the bytes of s
Holds(s, b) == \E i \in 1..Len(s) : s[i] = b

\* C13: in the firmware that serves both dialects from one loop, a legacy
\* 'q' received while no frame is open sets channel 0 to Low and a later
\* `?1` is answered "1: 1100", whatever the timing of arrival; the binary
\* decoder does not consume and discard legacy bytes.  (The host of the
\* legacy profile sends no other command that changes channel 0, and no
\* frame that holds a 'q' or a '?'.)
C13_LegacyServedBesideBinary ==
    (fw = "delimiter" /\ profile = "legacy") =>
        /\ ~Holds(binStream, 113) /\ ~Holds(binStream, ChQuery)
        /\ \A i \in 1..Len(cmdLog) :
               (cmdLog[i].kind = "legacy" /\ cmdLog[i].args = <<113>>)
               => cmdLog[i].post[0] = PULSEWIDTH_LOW
        /\ \A i \in 1..Len(cmdLog) :
               (cmdLog[i].kind = "lquery" /\ cmdLog[i].args = <<0>>
                    /\ cmdLog[i].pre[0] = PULSEWIDTH_LOW)
               => cmdLog[i].resp = TextChannel1Low

\* the legacy Move characters with their channel and pulse width
LegacyMoves ==
    {<<113, 0, 1100>>, <<97, 0, 1400>>, <<122, 0, 1700>>,
     <<119, 1, 1100>>, <<115, 1, 1400>>, <<120, 1, 1700>>,
     <<101, 2, 1100>>, <<100, 2, 1400>>, <<99, 2, 1700>>,
     <<114, 3, 1100>>, <<102, 3, 1400>>, <<118, 3, 1700>>}

\* the channel and pulse width of a successful Move, for the log entries
\* that are one: a binary Move with valid arguments, or a legacy Move
MoveTargets(e) ==
    CASE e.kind = "move" ->
           IF ValidMove(e)
           THEN {<<e.args[1],
                   LevelWidth(IF fw = "structured" THEN e.args[2] - 1
                              ELSE e.args[2])>>}
           ELSE {}
      [] e.kind = "legacy" ->
           {<<m[2], m[3]>> : m \in {t \in LegacyMoves : t[1] = e.args[1]}}
      [] OTHER -> {}

\* the position store when setup has finished
StoreAfterSetup ==
    IF fw = "arduino" THEN [c \in Channels |-> IF c = 0 THEN 1700 ELSE 2000]
    ELSE [c \in Channels |-> 1700]

\* C14: the position store is mutated only by a successful Move: every
\* change of the store is made by a command that is a Move with a valid
\* channel c and a valid level, and changes only entry c, to that level's
\* pulse width; between the handled commands, and by every other command
\* (Query, Handshake, unrecognized, invalid arguments, bytes outside a frame,
\* discarded partial frames), the store is left as it was.
C14_StoreChangedOnlyByMove ==
    pc # "setup" =>
        /\ \A i \in 1..Len(cmdLog) :
               cmdLog[i].post # cmdLog[i].pre =>
                   \E m \in MoveTargets(cmdLog[i]) :
                       cmdLog[i].post = [cmdLog[i].pre EXCEPT ![m[1]] = m[2]]
        /\ \A i \in 1..(Len(cmdLog) - 1) : cmdLog[i + 1].pre = cmdLog[i].post
        /\ servo_positions =
               IF cmdLog = <<>> THEN StoreAfterSetup
               ELSE cmdLog[Len(cmdLog)].post
        /\ cmdLog # <<>> => cmdLog[1].pre = StoreAfterSetup

\* C14 witness: the delimiter firmware has handled a Move with a channel out
\* of range and a Query, and then a legacy Move changed the store
C14_InvalidMoveThenChange ==
    /\ fw = "delimiter"
    /\ \E i \in 1..Len(cmdLog) :
           cmdLog[i].kind = "move" /\ ~ValidMove(cmdLog[i])
    /\ servo_positions # StoreAfterSetup

\* C15: in the structured variant a Handshake opcode 0x03 read at a command
\* boundary makes the firmware write exactly the byte 0xBB in that poll,
\* consume no further input byte and change no entry of the store.
C15_HandshakeEffect ==
    [][(/\ fw = "structured" /\ pc = "loop"
        /\ rx # <<>> /\ Head(rx) = 3
        /\ wire' = wire /\ rx' # rx)
       => /\ tx' = Append(tx, 187)
          /\ rx' = Tail(rx)
          /\ servo_positions' = servo_positions
          /\ pc' = "loop"]_vars

\* C15 witness: a Handshake was answered while another byte was waiting,
\* which is still unread
C15_HandshakeAnswered ==
    /\ fw = "structured"
    /\ Len(cmdLog) = 1 /\ cmdLog[1].kind = "handshake"
    /\ tx = <<0, 0, 0, 0, 170, 187>>
    /\ rx = <<CMD_QUERY_POSITION, 1>>

\* the responses of the log entries log[i..], one after the other
RECURSIVE Responses(_, _)
Responses(log, i) ==
    IF i > Len(log) THEN <<>> ELSE log[i].resp \o Responses(log, i + 1)

\* the log entry of the structured variant carries exactly one response unit
OneResponseUnit(e) ==
    CASE e.kind = "move" ->
           e.resp = (IF ValidMove(e) THEN <<0>> ELSE <<255>>)
      [] e.kind = "query" ->
           IF e.args[1] \in Channels
           THEN Len(e.resp) = 6 /\ e.resp[1] = 0 /\ e.resp[2] = e.args[1]
           ELSE e.resp = <<255>>
      [] e.kind = "handshake" -> e.resp = <<187>>
      [] e.kind = "unknown" -> e.resp = <<255>>
      [] OTHER -> FALSE

\* C20: in the structured variant each command processed writes exactly one
\* response unit: a Move one byte (0x00 or 0xFF), a Query six bytes (0x00,
\* channel, four position bytes) or the byte 0xFF, a Handshake 0xBB, an
\* unknown opcode 0xFF; nothing else is written after setup.
C20_OneResponsePerCommand ==
    (fw = "structured" /\ pc # "setup") =>
        /\ \A i \in 1..Len(cmdLog) : OneResponseUnit(cmdLog[i])
        /\ tx = <<0, 0, 0, 0, 170>> \o Responses(cmdLog, 1)

\* C20 witness: a Query with a channel out of range and a valid Query have
\* been answered, with one byte and with six
C20_ErrorAndDataAnswered ==
    /\ fw = "structured"
    /\ Len(cmdLog) = 2
    /\ cmdLog[1].kind = "query" /\ cmdLog[1].resp = <<255>>
    /\ cmdLog[2].kind = "query" /\ cmdLog[2].resp = <<0, 3, 0, 0, 6, 164>>

\* the line is exactly one character of the legacy alphabet
ExactMoveLine(line) == Len(line) = 1 /\ IndexOf(LegacyChars, line[1]) # 0

\* the line is exactly `?` and a digit 1-4
ExactQueryLine(line) ==
    Len(line) = 2 /\ line[1] = ChQuery /\ line[2] \in ChDigit1..ChDigit4

\* the responses a Query can get from the store sp
QueryResponses(sp) == {SendQueryResponse(sp, <<>>, c) : c \in Channels}

\* C16: in the line-terminated variant a completed line changes the store
\* only if it is exactly one alphabet character, and gets a query response
\* only if it is exactly `?` and a digit 1-4; every other line leaves the
\* store unchanged and gets no query response.
C16_OnlyExactLinesExecuted ==
    fw = "line" =>
        \A i \in 1..Len(cmdLog) :
            /\ ~ExactMoveLine(cmdLog[i].args) => cmdLog[i].post = cmdLog[i].pre
            /\ ~ExactQueryLine(cmdLog[i].args) =>
                   cmdLog[i].resp \notin QueryResponses(cmdLog[i].pre)

\* the log entry is a `?` that was followed by no character, or by a
\* character other than '1'..'4'
BadQuery(e) ==
    CASE fw \in {"arduino", "delimiter"} -> e.kind \in {"linvalid", "lpartial"}
      [] fw = "line" -> /\ CharAt(e.args, 0) = ChQuery
                        /\ CharAt(e.args, 1) \notin ChDigit1..ChDigit4
      [] OTHER -> FALSE

\* C17: in the variants that accept the query grammar, a `?` followed by a
\* character other than '1'..'4', or by no character, is reported with a
\* diagnostic and changes no entry of the position store.
C17_BadQueryReported ==
    \A i \in 1..Len(cmdLog) :
        BadQuery(cmdLog[i]) =>
            /\ cmdLog[i].resp # <<>>
            /\ cmdLog[i].post = cmdLog[i].pre

\* the delimiter decoder after each prefix of the bytes one poll reads keeps
\* bufferPos within cmdBuffer
BinPollInBounds ==
    LET d == DecoderAtPoll(DecoderState)
        st0 == [buf |-> d.buf, pos |-> d.pos, inCmd |-> d.inCmd,
                sp |-> servo_positions, out |-> tx,
                disp |-> dispatched, log |-> cmdLog]
    IN  \A k \in 0..Len(rx) :
            LET st == DecodeBytes(st0, SubSeq(rx, 1, k), 1) IN
            st.pos <= CmdBufferSize /\ Len(st.buf) = st.pos

\* the line decoder after each prefix of the bytes one poll reads keeps
\* cmd_pos below the last index of cmd_buffer
LinePollInBounds ==
    LET st0 == [buf |-> cmd_buffer, pos |-> cmd_pos, sp |-> servo_positions,
                out |-> tx, log |-> cmdLog]
    IN  \A k \in 0..Min(Len(rx), ReadBufferSize - 1) :
            LET st == LineBytes(st0, SubSeq(rx, 1, k), 1) IN
            st.pos <= CmdLineSize - 1 /\ Len(st.buf) = st.pos

\* C18: buffer indices stay in bounds: at every byte of every poll the
\* delimiter decoder's bufferPos is at most 16 and cmdBuffer holds no byte
\* at index 16 or above, the line decoder's cmd_pos is at most 127, and the
\* legacy processor's bufferPos after its read is at most 31.
C18_BufferIndicesInBounds ==
    [][/\ (fw = "delimiter" /\ pc = "bin" /\ pc' = "legacy") =>
             /\ BinPollInBounds
             /\ bufferPos' <= CmdBufferSize /\ Len(cmdBuffer') = bufferPos'
       /\ (fw = "delimiter" /\ pc = "legacy" /\ pc' = "bin") =>
             /\ legacyPos + (Len(asciiStream') - Len(asciiStream))
                   <= LegacyBufferSize - 1
             /\ legacyPos' <= LegacyBufferSize - 1
       /\ (fw = "line" /\ pc = "loop" /\ wire' = wire) =>
             /\ LinePollInBounds
             /\ cmd_pos' <= CmdLineSize - 1 /\ Len(cmd_buffer') = cmd_pos'
      ]_vars

\* C18 witness: the line decoder's buffer is full and a byte has been dropped
C18_LineBufferFull ==
    /\ fw = "line"
    /\ cmd_pos = CmdLineSize - 1
    /\ Len(asciiStream) >= CmdLineSize

\* C19: in the structured, delimiter and line firmwares every entry of
\* servo_positions is 1100, 1400 or 1700 in every reachable state, and the
\* two position bytes of each delimiter Query response give the stored value.
C19_StoreHoldsLevels ==
    fw \in {"structured", "delimiter", "line"} =>
        /\ \A c \in Channels :
               servo_positions[c] \in {PULSEWIDTH_LOW, PULSEWIDTH_MID,
                                       PULSEWIDTH_HIGH}
        /\ fw = "delimiter" =>
               \A i \in 1..Len(cmdLog) :
                   (cmdLog[i].kind = "query" /\ cmdLog[i].args[1] \in Channels) =>
                       /\ Len(cmdLog[i].resp) = 6
                       /\ cmdLog[i].resp[4] * 256 + cmdLog[i].resp[5]
                              = cmdLog[i].pre[cmdLog[i].args[1]]

\* C19 witness: the delimiter firmware answered a Query for a channel that a
\* Move had set to 1100
C19_QueriedMovedChannel ==
    /\ fw = "delimiter"
    /\ \E i \in 1..Len(cmdLog) :
           /\ cmdLog[i].kind = "query"
           /\ cmdLog[i].args[1] \in Channels
           /\ cmdLog[i].pre[cmdLog[i].args[1]] = PULSEWIDTH_LOW
           /\ cmdLog[i].resp[4] = 4 /\ cmdLog[i].resp[5] = 76

====
